---- MODULE Spec2Model ----
(***************************************************************************)
(* Model of src/mcp_teamviewer/server.py: the tool catalog (TOOLS), the    *)
(* four transport helpers (tv_get, tv_post, tv_put, tv_delete), the        *)
(* credential lookup (get_token, build_headers) and the dispatcher         *)
(* (handle_call_tool) with its single suspension point at the network      *)
(* call.                                                                   *)
(***************************************************************************)
EXTENDS Integers, Sequences, FiniteSets, TLC

VARIABLES
  env_token,   \* os.environ["TEAMVIEWER_API_TOKEN"]
  pc,          \* per activation: "idle", "awaiting" (suspended at the network call), "done"
  call,        \* per activation: name and args of the call, and the token at its start
  req,         \* per activation: the request handed to the HTTP client
  sent,        \* per activation: how many requests it handed to the HTTP client
  client,      \* per activation: its httpx.AsyncClient: "none", "open", "closed"
  answer,      \* per activation: what the network answered
  result,      \* per activation: what handle_call_tool returned or raised
  listed,      \* what handle_list_tools returned last
  catalog      \* the module-level list TOOLS

\* ------------------------------------------------------------------------
\* Bounds
\* ------------------------------------------------------------------------

\* largest number of keys in an argument mapping drawn by SpecShape
MaxKeys == 2

\* ------------------------------------------------------------------------
\* Python values.  A value is a record: t is its type, s is what str()
\* gives for it (so an f-string substitution is v.s).
\* ------------------------------------------------------------------------

Null == [t |-> "null", s |-> "None"]

Str(x) == [t |-> "str", s |-> x]

PyTrue == [t |-> "bool", s |-> "True"]

PyFalse == [t |-> "bool", s |-> "False"]

PyInt(n) == [t |-> "int", s |-> ToString(n)]

EmptyList == [t |-> "list", s |-> "[]"]

UserList == [t |-> "list", s |-> "[{'userid': 'u1', 'permissions': 'read'}]"]

\* Python truthiness: bool(v)
Truthy(v) ==
  CASE v.t = "null" -> FALSE
    [] v.t = "bool" -> v.s = "True"
    [] v.t = "str" -> v.s # ""
    [] v.t = "int" -> v.s # "0"
    [] v.t = "list" -> v.s # "[]"

\* the empty dict
EmptyMap == [k \in {} |-> Null]

Restrict(m, S) == [k \in S |-> m[k]]

\* d | {k: v}
Put(m, k, v) == [x \in (DOMAIN m) \cup {k} |-> IF x = k THEN v ELSE m[x]]

\* an optional dict: None, or a dict
NoneOpt == [none |-> TRUE, map |-> EmptyMap]

Some(m) == [none |-> FALSE, map |-> m]

\* `d or None`
OrNone(m) == IF m = EmptyMap THEN NoneOpt ELSE Some(m)

\* `d or {}`
OrEmpty(o) == IF o.none THEN EmptyMap ELSE o.map

\* ------------------------------------------------------------------------
\* The tool catalog
\* ------------------------------------------------------------------------

Tool(n, props, required) == [name |-> n, properties |-> props, required |-> required]

TOOLS ==
  << Tool("get_account", {}, {}),
     Tool("update_account", {"email", "name", "company", "password", "old_password"}, {}),
     Tool("list_devices", {"groupid", "online_state", "full_list"}, {}),
     Tool("get_device", {"device_id"}, {"device_id"}),
     Tool("update_device", {"device_id", "alias", "description", "password", "groupid"}, {"device_id"}),
     Tool("delete_device", {"device_id"}, {"device_id"}),
     Tool("list_groups", {"name"}, {}),
     Tool("create_group", {"name", "policy_id"}, {"name"}),
     Tool("update_group", {"group_id", "name", "policy_id"}, {"group_id"}),
     Tool("delete_group", {"group_id"}, {"group_id"}),
     Tool("share_group", {"group_id", "users"}, {"group_id", "users"}),
     Tool("list_users", {"name", "email", "permissions", "full_list"}, {}),
     Tool("create_user", {"email", "name", "password", "permissions", "language"}, {"email", "name", "password"}),
     Tool("get_user", {"user_id"}, {"user_id"}),
     Tool("update_user", {"user_id", "email", "name", "permissions", "active"}, {"user_id"}),
     Tool("list_sessions", {"groupid", "state"}, {}),
     Tool("create_session", {"groupid", "description", "custom_internal_id"}, {"groupid"}),
     Tool("get_session", {"session_code"}, {"session_code"}),
     Tool("update_session", {"session_code", "description", "custom_internal_id"}, {"session_code"}),
     Tool("close_session", {"session_code"}, {"session_code"}),
     Tool("get_connection_reports", {"from_date", "to_date", "device_id", "user_id", "session_code", "limit", "offset"}, {}),
     Tool("list_meetings", {}, {}),
     Tool("create_meeting", {"subject", "start", "end", "password"}, {"subject", "start", "end"}),
     Tool("get_meeting", {"meeting_id"}, {"meeting_id"}),
     Tool("update_meeting", {"meeting_id", "subject", "start", "end", "password"}, {"meeting_id"}),
     Tool("delete_meeting", {"meeting_id"}, {"meeting_id"}),
     Tool("list_policies", {}, {}),
     Tool("get_policy", {"policy_id"}, {"policy_id"}),
     Tool("ping", {}, {}) >>

ToolNames == {TOOLS[j].name : j \in 1..Len(TOOLS)}

Descriptor(n) == CHOOSE d \in {TOOLS[j] : j \in 1..Len(TOOLS)} : d.name = n

\* ------------------------------------------------------------------------
\* Credential
\* ------------------------------------------------------------------------

TokenMsg == "TEAMVIEWER_API_TOKEN environment variable is not set. Create a Script Token in TeamViewer Management Console under Edit Profile -> Apps -> Create Script Token."

\* How a call of a function ends: exc = "" is a normal return of data,
\* otherwise the class of the exception raised (status and text are those
\* of the response an HTTPStatusError carries).
Returns(d) == [exc |-> "", msg |-> "", status |-> 0, text |-> "", data |-> d]

Raises(e, m) == [exc |-> e, msg |-> m, status |-> 0, text |-> "", data |-> ""]

\* get_token without its emptiness test
get_token_unchecked(token) == Returns(token)

get_token(token) ==
  IF token = "" THEN Raises("ValueError", TokenMsg) ELSE Returns(token)

\* the header built once, when the module was loaded with the token tok-A
build_headers_at_import(token) == Returns("Bearer tok-A")

\* {"Authorization": f"Bearer {get_token()}", ...}
build_headers(token) ==
  LET t == get_token(token)
  IN  IF t.exc # "" THEN t ELSE Returns("Bearer " \o t.data)

\* ------------------------------------------------------------------------
\* Transport client.  Each helper runs in two halves around its await: the
\* half that builds the request (`_request`) and the half that turns the
\* answer into a return value or an exception (`_result`).
\* ------------------------------------------------------------------------

BASE_URL == "https://webapi.teamviewer.com/api/v1"

Request(verb, path, auth, params, body) ==
  [verb |-> verb, url |-> BASE_URL \o path, auth |-> auth,
   params |-> params, body |-> body]

NoRequest ==
  [verb |-> "", url |-> "", auth |-> "", params |-> NoneOpt, body |-> NoneOpt]

tv_get_request(path, params, auth) == Request("GET", path, auth, params, NoneOpt)

tv_post_request(path, body, auth) ==
  Request("POST", path, auth, NoneOpt, Some(OrEmpty(body)))

tv_put_request(path, body, auth) ==
  Request("PUT", path, auth, NoneOpt, Some(OrEmpty(body)))

tv_delete_request(path, auth) == Request("DELETE", path, auth, NoneOpt, NoneOpt)

\* What the network gives back to one request: a response, or no response
\* within the timeout, or no connection.
Answer(kind, status, body) == [kind |-> kind, status |-> status, body |-> body]

\* response bodies, and what json parsing makes of the parsable ones
JsonTextA == "{\"id\": \"d1\"}"

JsonTextB == "{ \"id\" : \"d1\" }"

JsonValueD1 == "object(id=d1)"

SuccessTrue == "object(success=true)"

HtmlText == "<html>maintenance</html>"

NotFoundText == "{\"error\":\"not_found\"}"

JsonDecodeMsg == "Expecting value: line 1 column 1 (char 0)"

\* response.json()
response_json(r) ==
  IF r.body \in {JsonTextA, JsonTextB}
  THEN Returns(JsonValueD1)
  ELSE Raises("JSONDecodeError", JsonDecodeMsg)

\* client.<verb>(...) followed by response.raise_for_status(): the
\* completion is normal (exc = "") when a 2xx response arrived
raise_for_status(r) ==
  CASE r.kind = "timeout" -> Raises("ReadTimeout", "")
    [] r.kind = "connect" -> Raises("ConnectError", "")
    [] OTHER ->
         IF r.status >= 200 /\ r.status < 300
         THEN Returns("")
         ELSE [exc |-> "HTTPStatusError", msg |-> "",
               status |-> r.status, text |-> r.body, data |-> ""]

tv_get_result(r) ==
  LET c == raise_for_status(r) IN IF c.exc # "" THEN c ELSE response_json(r)

tv_post_result(r) ==
  LET c == raise_for_status(r) IN IF c.exc # "" THEN c ELSE response_json(r)

tv_put_result(r) ==
  LET c == raise_for_status(r) IN IF c.exc # "" THEN c ELSE response_json(r)

tv_delete_result(r) ==
  LET c == raise_for_status(r)
  IN  IF c.exc # "" THEN c
      ELSE IF r.status = 204 THEN Returns(SuccessTrue)
      ELSE response_json(r)

tv_result(verb, r) ==
  CASE verb = "GET" -> tv_get_result(r)
    [] verb = "POST" -> tv_post_result(r)
    [] verb = "PUT" -> tv_put_result(r)
    [] verb = "DELETE" -> tv_delete_result(r)

\* ------------------------------------------------------------------------
\* Dispatcher: argument shaping.  A branch of handle_call_tool either
\* calls one transport helper (a plan: which helper, on which path, with
\* which dict), or fails on a subscript of a missing key, or is the final
\* else.
\* ------------------------------------------------------------------------

Plan(fn, path, arg) == [kind |-> "call", fn |-> fn, path |-> path, arg |-> arg, key |-> ""]

TvGet(path, params) == Plan("tv_get", path, params)

TvPost(path, body) == Plan("tv_post", path, Some(body))

TvPut(path, body) == Plan("tv_put", path, Some(body))

TvDelete(path) == Plan("tv_delete", path, NoneOpt)

KeyErrorPlan(k) == [kind |-> "KeyError", fn |-> "", path |-> "", arg |-> NoneOpt, key |-> k]

UnknownPlan == [kind |-> "unknown", fn |-> "", path |-> "", arg |-> NoneOpt, key |-> ""]

\* args.get(k)
Get(args, k) == IF k \in DOMAIN args THEN args[k] ELSE Null

\* args.get(k) in place of args[k]: no KeyError
Missing_never(args, k) == FALSE

\* whether args[k] / args.pop(k) raises KeyError
Missing(args, k) == k \notin DOMAIN args

\* args[k] in place of args.pop(k): the key stays in args
pop_kept(args, k) == args

\* the dict left by args.pop(k)
pop(args, k) == Restrict(args, (DOMAIN args) \ {k})

\* {k: v for k, v in args.items() if v is not None}
NotNone(args) == Restrict(args, {k \in DOMAIN args : args[k] # Null})

\* `is not None` in place of truthiness
CopyIfSet_notNone(params, args, field) ==
  IF Get(args, field) # Null THEN Put(params, field, args[field]) ELSE params

\* if args.get(field): params[field] = args[field]
CopyIfSet(params, args, field) ==
  IF Truthy(Get(args, field)) THEN Put(params, field, args[field]) ELSE params

\* if args.get("full_list"): params["full_list"] = "true"
FlagIfSet(params, args, field) ==
  IF Truthy(Get(args, field)) THEN Put(params, field, Str("true")) ELSE params

\* a path with an identifier substituted: f"{prefix}{args[k]}{suffix}"
ById(fnplan, args, k) == IF Missing(args, k) THEN KeyErrorPlan(k) ELSE fnplan

IdPath(prefix, args, k) == prefix \o Get(args, k).s

update_account(args) == TvPut("/account", NotNone(args))

list_devices(args) ==
  LET p1 == CopyIfSet(EmptyMap, args, "groupid")
      p2 == CopyIfSet(p1, args, "online_state")
      p3 == FlagIfSet(p2, args, "full_list")
  IN  TvGet("/devices", OrNone(p3))

get_device(args) ==
  ById(TvGet(IdPath("/devices/", args, "device_id"), NoneOpt), args, "device_id")

update_device(args) ==
  ById(TvPut(IdPath("/devices/", args, "device_id"), NotNone(pop(args, "device_id"))),
       args, "device_id")

delete_device(args) ==
  ById(TvDelete(IdPath("/devices/", args, "device_id")), args, "device_id")

list_groups(args) == TvGet("/groups", OrNone(CopyIfSet(EmptyMap, args, "name")))

create_group(args) ==
  ById(TvPost("/groups",
              CopyIfSet(Put(EmptyMap, "name", Get(args, "name")), args, "policy_id")),
       args, "name")

update_group(args) ==
  ById(TvPut(IdPath("/groups/", args, "group_id"), NotNone(pop(args, "group_id"))),
       args, "group_id")

delete_group(args) ==
  ById(TvDelete(IdPath("/groups/", args, "group_id")), args, "group_id")

share_group(args) ==
  ById(ById(TvPost(IdPath("/groups/", args, "group_id") \o "/share_group",
                   Put(EmptyMap, "users", Get(args, "users"))),
            args, "users"),
       args, "group_id")

list_users(args) ==
  LET p1 == CopyIfSet(EmptyMap, args, "name")
      p2 == CopyIfSet(p1, args, "email")
      p3 == CopyIfSet(p2, args, "permissions")
      p4 == FlagIfSet(p3, args, "full_list")
  IN  TvGet("/users", OrNone(p4))

create_user(args) == TvPost("/users", NotNone(args))

get_user(args) ==
  ById(TvGet(IdPath("/users/", args, "user_id"), NoneOpt), args, "user_id")

update_user(args) ==
  ById(TvPut(IdPath("/users/", args, "user_id"), NotNone(pop(args, "user_id"))),
       args, "user_id")

list_sessions(args) ==
  LET p1 == CopyIfSet(EmptyMap, args, "groupid")
      p2 == CopyIfSet(p1, args, "state")
  IN  TvGet("/sessions", OrNone(p2))

create_session(args) == TvPost("/sessions", NotNone(args))

get_session(args) ==
  ById(TvGet(IdPath("/sessions/", args, "session_code"), NoneOpt), args, "session_code")

update_session(args) ==
  ById(TvPut(IdPath("/sessions/", args, "session_code"),
             NotNone(pop(args, "session_code"))),
       args, "session_code")

\* the remaining arguments merged into the body
close_session_merged(args) ==
  ById(TvPut(IdPath("/sessions/", args, "session_code"),
             Put(NotNone(pop(args, "session_code")), "state", Str("closed"))),
       args, "session_code")

close_session(args) ==
  ById(TvPut(IdPath("/sessions/", args, "session_code"),
             Put(EmptyMap, "state", Str("closed"))),
       args, "session_code")

\* field_map of the get_connection_reports branch, as (argument, parameter)
field_map ==
  << <<"from_date", "from">>, <<"to_date", "to">>, <<"device_id", "deviceid">>,
     <<"user_id", "userid">>, <<"session_code", "sessioncode">>,
     <<"limit", "limit">>, <<"offset", "offset">> >>

\* truthiness in place of `is not None`
RenameIfSet_truthy(params, args, pair) ==
  IF Truthy(Get(args, pair[1])) THEN Put(params, pair[2], args[pair[1]]) ELSE params

\* if args.get(arg_key) is not None: params[param_key] = args[arg_key]
RenameIfSet(params, args, pair) ==
  IF Get(args, pair[1]) # Null THEN Put(params, pair[2], args[pair[1]]) ELSE params

RECURSIVE RenameAll(_, _, _)
RenameAll(params, args, j) ==
  IF j > Len(field_map) THEN params
  ELSE RenameAll(RenameIfSet(params, args, field_map[j]), args, j + 1)

get_connection_reports(args) ==
  TvGet("/reports/connections", OrNone(RenameAll(EmptyMap, args, 1)))

create_meeting(args) == TvPost("/meetings", NotNone(args))

get_meeting(args) ==
  ById(TvGet(IdPath("/meetings/", args, "meeting_id"), NoneOpt), args, "meeting_id")

update_meeting(args) ==
  ById(TvPut(IdPath("/meetings/", args, "meeting_id"), NotNone(pop(args, "meeting_id"))),
       args, "meeting_id")

delete_meeting(args) ==
  ById(TvDelete(IdPath("/meetings/", args, "meeting_id")), args, "meeting_id")

get_policy(args) ==
  ById(TvGet(IdPath("/teamviewerpolicies/", args, "policy_id"), NoneOpt),
       args, "policy_id")

\* the if / elif chain of handle_call_tool
Shape(name, args) ==
  CASE name = "ping" -> TvGet("/ping", NoneOpt)
    [] name = "get_account" -> TvGet("/account", NoneOpt)
    [] name = "update_account" -> update_account(args)
    [] name = "list_devices" -> list_devices(args)
    [] name = "get_device" -> get_device(args)
    [] name = "update_device" -> update_device(args)
    [] name = "delete_device" -> delete_device(args)
    [] name = "list_groups" -> list_groups(args)
    [] name = "create_group" -> create_group(args)
    [] name = "update_group" -> update_group(args)
    [] name = "delete_group" -> delete_group(args)
    [] name = "share_group" -> share_group(args)
    [] name = "list_users" -> list_users(args)
    [] name = "create_user" -> create_user(args)
    [] name = "get_user" -> get_user(args)
    [] name = "update_user" -> update_user(args)
    [] name = "list_sessions" -> list_sessions(args)
    [] name = "create_session" -> create_session(args)
    [] name = "get_session" -> get_session(args)
    [] name = "update_session" -> update_session(args)
    [] name = "close_session" -> close_session(args)
    [] name = "get_connection_reports" -> get_connection_reports(args)
    [] name = "list_meetings" -> TvGet("/meetings", NoneOpt)
    [] name = "create_meeting" -> create_meeting(args)
    [] name = "get_meeting" -> get_meeting(args)
    [] name = "update_meeting" -> update_meeting(args)
    [] name = "delete_meeting" -> delete_meeting(args)
    [] name = "list_policies" -> TvGet("/teamviewerpolicies", NoneOpt)
    [] name = "get_policy" -> get_policy(args)
    [] OTHER -> UnknownPlan

\* the request the planned helper sends
tv_request(plan, auth) ==
  CASE plan.fn = "tv_get" -> tv_get_request(plan.path, plan.arg, auth)
    [] plan.fn = "tv_post" -> tv_post_request(plan.path, plan.arg, auth)
    [] plan.fn = "tv_put" -> tv_put_request(plan.path, plan.arg, auth)
    [] plan.fn = "tv_delete" -> tv_delete_request(plan.path, auth)


\* ------------------------------------------------------------------------
\* Dispatcher: the result of an invocation
\* ------------------------------------------------------------------------

\* What handle_call_tool hands to its caller: out = "envelope" is a returned
\* one-element content list whose JSON payload is either the data or an
\* object with an "error" key (and a "detail" key when hasDetail);
\* out = "raised" is an exception of class exc leaving the function.
NoResult ==
  [out |-> "none", exc |-> "", kind |-> "", error |-> "",
   hasDetail |-> FALSE, detail |-> "", data |-> ""]

ok(data) ==
  [out |-> "envelope", exc |-> "", kind |-> "data", error |-> "",
   hasDetail |-> FALSE, detail |-> "", data |-> data]

ErrorEnvelope(error) ==
  [out |-> "envelope", exc |-> "", kind |-> "error", error |-> error,
   hasDetail |-> FALSE, detail |-> "", data |-> ""]

ErrorDetailEnvelope(error, detail) ==
  [out |-> "envelope", exc |-> "", kind |-> "error", error |-> error,
   hasDetail |-> TRUE, detail |-> detail, data |-> ""]

Raised(exc) ==
  [out |-> "raised", exc |-> exc, kind |-> "", error |-> "",
   hasDetail |-> FALSE, detail |-> "", data |-> ""]

\* the else branch without the name in its message
unknown_tool_unnamed(name) == ErrorEnvelope("Unknown tool")

\* the final else
unknown_tool(name) == ErrorEnvelope("Unknown tool: " \o name)

\* the upstream body reinterpreted instead of passed through
http_error_parsed(c) ==
  ErrorDetailEnvelope("TeamViewer API error " \o ToString(c.status),
                      IF c.text = NotFoundText THEN "not_found" ELSE c.text)

\* except httpx.HTTPStatusError as exc
http_error(c) ==
  ErrorDetailEnvelope("TeamViewer API error " \o ToString(c.status), c.text)

\* isinstance(exc, ValueError): json.JSONDecodeError derives from ValueError
IsValueError(exc) == exc \in {"ValueError", "JSONDecodeError"}

\* `except Exception` in place of `except ValueError`
handle_exception_all(c) ==
  IF c.exc = "HTTPStatusError" THEN http_error(c) ELSE ErrorEnvelope(c.msg)

\* the except clauses of handle_call_tool, applied to a raised exception
handle_exception(c) ==
  IF c.exc = "HTTPStatusError" THEN http_error(c)
  ELSE IF IsValueError(c.exc) THEN ErrorEnvelope(c.msg)
  ELSE Raised(c.exc)

\* how the try block's completion c becomes the invocation's result
Finish(c) == IF c.exc = "" THEN ok(c.data) ELSE handle_exception(c)

\* ------------------------------------------------------------------------
\* Inputs
\* ------------------------------------------------------------------------

\* coroutine activations of handle_call_tool that may be in flight together
Invocations == {1, 2}

\* values of the TEAMVIEWER_API_TOKEN environment variable ("" also stands
\* for the variable being unset: os.environ.get(..., ""))
Tokens == {"", "tok-A"}

UnknownNames == {"restart_device"}

Names == ToolNames \cup UnknownNames

ExtraKey == "extra"

BoolKeys == {"full_list", "active"}

IntKeys == {"limit", "offset"}

ListKeys == {"users"}

ValuesOf(k) ==
  CASE k \in BoolKeys -> {Null, PyFalse, PyTrue}
    [] k \in IntKeys -> {Null, PyInt(0), PyInt(50)}
    [] k \in ListKeys -> {Null, EmptyList, UserList}
    [] OTHER -> {Null, Str(""), Str("v1")}

AllValues ==
  {Null, PyFalse, PyTrue, PyInt(0), PyInt(50), EmptyList, UserList, Str(""), Str("v1")}

\* the keys a call of the tool may carry: the declared ones, an undeclared
\* one and, for close_session, the key of the body it sends
KeysOf(name) ==
  IF name \in ToolNames
  THEN Descriptor(name).properties \cup {ExtraKey}
         \cup (IF name = "close_session" THEN {"state"} ELSE {})
  ELSE {ExtraKey}

\* the argument mappings over at most n of the keys K
ArgMaps(K, n) ==
  UNION { {m \in [S -> AllValues] : \A k \in S : m[k] \in ValuesOf(k)} :
          S \in {T \in SUBSET K : Cardinality(T) <= n} }

\* a truthy value for each key
Sample(k) ==
  CASE k \in BoolKeys -> PyTrue
    [] k \in IntKeys -> PyInt(50)
    [] k \in ListKeys -> UserList
    [] OTHER -> Str("v1")

RequiredArgs(name) ==
  IF name \in ToolNames
  THEN [k \in Descriptor(name).required |-> Sample(k)]
  ELSE EmptyMap

\* what the network may answer
Answers ==
  { Answer("response", 200, JsonTextA),
    Answer("response", 200, HtmlText),
    Answer("response", 204, ""),
    Answer("response", 404, NotFoundText),
    Answer("response", 500, HtmlText),
    Answer("timeout", 0, ""),
    Answer("connect", 0, "") }

NoAnswer == Answer("none", 0, "")

\* ------------------------------------------------------------------------
\* State and operations
\* ------------------------------------------------------------------------

vars == <<env_token, pc, call, req, sent, client, answer, result, listed, catalog>>

NoCall == [name |-> "", args |-> EmptyMap, token |-> ""]

Init ==
  /\ env_token \in Tokens
  /\ pc = [i \in Invocations |-> "idle"]
  /\ call = [i \in Invocations |-> NoCall]
  /\ req = [i \in Invocations |-> NoRequest]
  /\ sent = [i \in Invocations |-> 0]
  /\ client = [i \in Invocations |-> "none"]
  /\ answer = [i \in Invocations |-> NoAnswer]
  /\ result = [i \in Invocations |-> NoResult]
  /\ listed = << >>
  /\ catalog = TOOLS

\* handle_call_tool from its entry to its first suspension or its end
Call(i, name, arguments) ==
  /\ pc[i] = "idle"
  /\ LET args == OrEmpty(arguments)
         plan == Shape(name, args)
         hdr == build_headers(env_token)
     IN  /\ call' = [call EXCEPT ![i] = [name |-> name, args |-> args, token |-> env_token]]
         /\ answer' = [answer EXCEPT ![i] = NoAnswer]
         /\ IF plan.kind = "unknown" THEN
              /\ result' = [result EXCEPT ![i] = unknown_tool(name)]
              /\ pc' = [pc EXCEPT ![i] = "done"]
              /\ UNCHANGED <<req, sent, client>>
            ELSE IF plan.kind = "KeyError" THEN
              /\ result' = [result EXCEPT ![i] = handle_exception(Raises("KeyError", plan.key))]
              /\ pc' = [pc EXCEPT ![i] = "done"]
              /\ UNCHANGED <<req, sent, client>>
            ELSE IF hdr.exc # "" THEN
              \* async with opened the client; build_headers() raised before
              \* client.<verb> was called; leaving the block closed the client
              /\ result' = [result EXCEPT ![i] = handle_exception(hdr)]
              /\ client' = [client EXCEPT ![i] = "closed"]
              /\ pc' = [pc EXCEPT ![i] = "done"]
              /\ UNCHANGED <<req, sent>>
            ELSE
              /\ req' = [req EXCEPT ![i] = tv_request(plan, hdr.data)]
              /\ sent' = [sent EXCEPT ![i] = @ + 1]
              /\ client' = [client EXCEPT ![i] = "open"]
              /\ pc' = [pc EXCEPT ![i] = "awaiting"]
              /\ UNCHANGED result
  /\ UNCHANGED <<env_token, listed, catalog>>

\* one HTTP client shared by the activations: a request that gets no
\* response closes it, and every activation suspended on it ends the same way
Respond_shared_client(i, r) ==
  /\ pc[i] = "awaiting"
  /\ LET hit == IF r.kind = "response"
                THEN {i}
                ELSE {j \in Invocations : pc[j] = "awaiting"}
     IN  /\ answer' = [j \in Invocations |-> IF j \in hit THEN r ELSE answer[j]]
         /\ result' = [j \in Invocations |->
                         IF j \in hit
                         THEN Finish(tv_result(req[j].verb, r))
                         ELSE result[j]]
         /\ client' = [j \in Invocations |-> IF j \in hit THEN "closed" ELSE client[j]]
         /\ pc' = [j \in Invocations |-> IF j \in hit THEN "done" ELSE pc[j]]
  /\ UNCHANGED <<env_token, call, req, sent, listed, catalog>>

\* a client closed by a statement after the request instead of by leaving
\* an `async with` block: an exception skips the statement
Respond_close_on_return(i, r) ==
  /\ pc[i] = "awaiting"
  /\ answer' = [answer EXCEPT ![i] = r]
  /\ result' = [result EXCEPT ![i] = Finish(tv_result(req[i].verb, r))]
  /\ client' = [client EXCEPT ![i] =
                  IF tv_result(req[i].verb, r).exc = "" THEN "closed" ELSE "open"]
  /\ pc' = [pc EXCEPT ![i] = "done"]
  /\ UNCHANGED <<env_token, call, req, sent, listed, catalog>>

\* the awaited network call completes with answer r and handle_call_tool runs
\* to its end
Respond(i, r) ==
  /\ pc[i] = "awaiting"
  /\ answer' = [answer EXCEPT ![i] = r]
  /\ result' = [result EXCEPT ![i] = Finish(tv_result(req[i].verb, r))]
  /\ client' = [client EXCEPT ![i] = "closed"]
  /\ pc' = [pc EXCEPT ![i] = "done"]
  /\ UNCHANGED <<env_token, call, req, sent, listed, catalog>>

\* the caller has taken the result; the activation is gone
Return(i) ==
  /\ pc[i] = "done"
  /\ pc' = [pc EXCEPT ![i] = "idle"]
  /\ call' = [call EXCEPT ![i] = NoCall]
  /\ req' = [req EXCEPT ![i] = NoRequest]
  /\ sent' = [sent EXCEPT ![i] = 0]
  /\ client' = [client EXCEPT ![i] = "none"]
  /\ answer' = [answer EXCEPT ![i] = NoAnswer]
  /\ result' = [result EXCEPT ![i] = NoResult]
  /\ UNCHANGED <<env_token, listed, catalog>>

\* the environment variable is set, replaced or removed
SetToken(t) ==
  /\ t # env_token
  /\ env_token' = t
  /\ UNCHANGED <<pc, call, req, sent, client, answer, result, listed, catalog>>

\* a catalog handed out entry by entry: each listing takes the first entry
\* off the list
handle_list_tools_consuming ==
  /\ catalog # << >>
  /\ listed' = catalog
  /\ catalog' = Tail(catalog)
  /\ UNCHANGED <<env_token, pc, call, req, sent, client, answer, result>>

\* `return TOOLS`
handle_list_tools ==
  /\ listed' = catalog
  /\ UNCHANGED <<env_token, pc, call, req, sent, client, answer, result, catalog>>

\* the calls Spec makes: every name, with no arguments or with the schema's
\* required arguments
SpecArguments(name) == {NoneOpt, Some(EmptyMap), Some(RequiredArgs(name))}

Next ==
  \/ \E i \in Invocations, name \in Names :
       \E arguments \in SpecArguments(name) : Call(i, name, arguments)
  \/ \E i \in Invocations, r \in Answers : Respond(i, r)
  \/ \E i \in Invocations : Return(i)
  \/ \E t \in Tokens : SetToken(t)
  \/ handle_list_tools

Spec == Init /\ [][Next]_vars

\* ------------------------------------------------------------------------
\* SpecShape: one activation at a time, the credential set, every argument
\* mapping of at most MaxKeys keys over the tool's declared keys and one
\* undeclared key, and a well-formed answer.  It is the specification for
\* the claims about the request a call is shaped into.
\* ------------------------------------------------------------------------

InitShape == Init /\ env_token # ""

ShapeAnswers == {Answer("response", 200, JsonTextA), Answer("response", 204, "")}

NextShape ==
  \/ \E name \in Names :
       \E m \in ArgMaps(KeysOf(name), MaxKeys) : Call(1, name, Some(m))
  \/ \E r \in ShapeAnswers : Respond(1, r)
  \/ Return(1)

SpecShape == InitShape /\ [][NextShape]_vars

\* ------------------------------------------------------------------------
\* SpecCredential: two activations, every tool called with its required
\* arguments, a token that is set, replaced by another and removed between
\* and during invocations, and an answer that is a result or a timeout.  It
\* is the specification for the claim about when the credential is read.
\* ------------------------------------------------------------------------

CredentialTokens == Tokens \cup {"tok-B"}

CredentialAnswers == {Answer("response", 200, JsonTextA), Answer("timeout", 0, "")}

NextCredential ==
  \/ \E i \in Invocations, name \in Names : Call(i, name, Some(RequiredArgs(name)))
  \/ \E i \in Invocations, r \in CredentialAnswers : Respond(i, r)
  \/ \E i \in Invocations : Return(i)
  \/ \E t \in CredentialTokens : SetToken(t)

SpecCredential == Init /\ [][NextCredential]_vars

\* ------------------------------------------------------------------------
\* Vocabulary of the claims
\* ------------------------------------------------------------------------

\* the arguments a tool's branch reads by subscript (args[k], args.pop(k)):
\* the schema's required arguments, except for the three create tools whose
\* branch copies args without reading any key
SubscriptedKeys(name) ==
  IF name \in ToolNames \ {"create_user", "create_session", "create_meeting"}
  THEN Descriptor(name).required
  ELSE {}

\* the call of activation i names a catalog tool and supplies every
\* argument its branch reads by subscript
Shapeable(i) ==
  /\ call[i].name \in ToolNames
  /\ SubscriptedKeys(call[i].name) \subseteq DOMAIN call[i].args

TransportFault(i) == answer[i].kind \in {"timeout", "connect"}

Is2xx(i) ==
  answer[i].kind = "response" /\ answer[i].status >= 200 /\ answer[i].status < 300

NonSuccess(i) == answer[i].kind = "response" /\ ~Is2xx(i)

ConfigurationEnvelope ==
  [out |-> "envelope", exc |-> "", kind |-> "error", error |-> TokenMsg,
   hasDetail |-> FALSE, detail |-> "", data |-> ""]

\* ------------------------------------------------------------------------
\* C1
\* ------------------------------------------------------------------------

\* C1 as stated, on the calls whose arguments the branch can read: every
\* finished invocation, whatever the tool, the credential and the outcome of
\* the request, has returned an envelope (nothing is raised past
\* handle_call_tool).
C1_AlwaysEnvelope ==
  \A i \in Invocations :
    (pc[i] = "done" /\ (call[i].name \in ToolNames => Shapeable(i))) =>
      result[i].out = "envelope"

\* C1 amended: an invocation has no outcome before it ends and exactly one
\* when it ends, an envelope or a raised exception; it is an exception
\* exactly when the request timed out or could not connect (the httpx
\* exception) or when an argument the branch reads by subscript is missing
\* (KeyError); every other end, including an unparsable 2xx body, is an
\* envelope.
C1_OneOutcome ==
  \A i \in Invocations :
    /\ pc[i] # "done" => result[i].out = "none"
    /\ pc[i] = "done" =>
         /\ result[i].out \in {"envelope", "raised"}
         /\ result[i].out = "raised" <=>
              \/ TransportFault(i)
              \/ call[i].name \in ToolNames /\ ~Shapeable(i)
         /\ TransportFault(i) => result[i].exc \in {"ReadTimeout", "ConnectError"}
         /\ (call[i].name \in ToolNames /\ ~Shapeable(i)) => result[i].exc = "KeyError"

C1_Witness ==
  /\ pc[1] = "done" /\ answer[1].kind = "timeout" /\ result[1].out = "raised"
  /\ pc[2] = "done" /\ Is2xx(2) /\ result[2].out = "envelope"

\* ------------------------------------------------------------------------
\* C2
\* ------------------------------------------------------------------------

\* C2: when the request of an invocation was answered with a non-2xx status
\* S and body B, the invocation returned the envelope
\* {error: "TeamViewer API error S", detail: B}.
C2_UpstreamErrorEnvelope ==
  \A i \in Invocations :
    (pc[i] = "done" /\ NonSuccess(i)) =>
      result[i] =
        [out |-> "envelope", exc |-> "", kind |-> "error",
         error |-> "TeamViewer API error " \o ToString(answer[i].status),
         hasDetail |-> TRUE, detail |-> answer[i].body, data |-> ""]

C2_Witness ==
  /\ pc[1] = "done"
  /\ call[1].name = "get_device"
  /\ answer[1] = Answer("response", 404, NotFoundText)
  /\ result[1].error = "TeamViewer API error 404"
  /\ result[1].detail = NotFoundText

\* ------------------------------------------------------------------------
\* C3
\* ------------------------------------------------------------------------

\* C3 as stated: with the credential empty, every invocation of a catalog
\* tool, whatever its arguments, returned the same configuration-error
\* envelope and made no network call.
C3_AlwaysConfigurationError ==
  \A i \in Invocations :
    (pc[i] = "done" /\ call[i].token = "" /\ call[i].name \in ToolNames) =>
      result[i] = ConfigurationEnvelope /\ sent[i] = 0

\* C3 amended: with the credential empty, no invocation makes a network
\* call, and every invocation of a catalog tool that supplies the arguments
\* its branch reads by subscript returned the same configuration-error
\* envelope, whatever the tool and the arguments.
C3_ConfigurationError ==
  \A i \in Invocations :
    (pc[i] # "idle" /\ call[i].token = "") =>
      /\ pc[i] = "done"
      /\ sent[i] = 0
      /\ req[i] = NoRequest
      /\ answer[i] = NoAnswer
      /\ Shapeable(i) => result[i] = ConfigurationEnvelope

C3_Witness ==
  /\ pc[1] = "done" /\ call[1].token = "" /\ call[1].name = "get_device"
  /\ Shapeable(1) /\ result[1] = ConfigurationEnvelope /\ sent[1] = 0
  /\ pc[2] = "done" /\ call[2].token = "" /\ call[2].name = "list_users"
  /\ result[2] = ConfigurationEnvelope /\ sent[2] = 0

\* ------------------------------------------------------------------------
\* C4
\* ------------------------------------------------------------------------

\* C4: an invocation returned the envelope {error: "Unknown tool: <name>"}
\* if and only if its name is not in the catalog; in that case it returned
\* (did not raise) and made no request.
C4_UnknownTool ==
  \A i \in Invocations :
    pc[i] = "done" =>
      /\ (call[i].name \notin ToolNames) <=>
           result[i] =
             [out |-> "envelope", exc |-> "", kind |-> "error",
              error |-> "Unknown tool: " \o call[i].name,
              hasDetail |-> FALSE, detail |-> "", data |-> ""]
      /\ (call[i].name \notin ToolNames) =>
           sent[i] = 0 /\ req[i] = NoRequest /\ client[i] = "none"

C4_Witness ==
  /\ pc[1] = "done" /\ call[1].name = "restart_device"
  /\ result[1].out = "envelope"
  /\ result[1].error = "Unknown tool: restart_device"
  /\ pc[2] = "done" /\ call[2].name = "ping" /\ result[2].kind = "data"

\* ------------------------------------------------------------------------
\* C5
\* ------------------------------------------------------------------------

\* C5 as stated, on the calls of catalog tools whose arguments the branch
\* can read: every finished invocation made exactly one request.
C5_ExactlyOneRequest ==
  \A i \in Invocations : (pc[i] = "done" /\ Shapeable(i)) => sent[i] = 1

\* C5 amended: an invocation makes at most one request, also after an
\* upstream error, a timeout or a connection failure; it makes exactly one
\* when its tool is in the catalog, the arguments its branch reads by
\* subscript are supplied and the credential is not empty, and none
\* otherwise.
C5_AtMostOneRequest ==
  \A i \in Invocations :
    /\ sent[i] <= 1
    /\ pc[i] = "awaiting" => sent[i] = 1
    /\ pc[i] = "done" =>
         (sent[i] = 1 <=> (Shapeable(i) /\ call[i].token # ""))

C5_Witness ==
  /\ pc[1] = "done" /\ answer[1].kind = "timeout" /\ sent[1] = 1
  /\ pc[2] = "done" /\ answer[2].kind = "response" /\ answer[2].status = 500
  /\ sent[2] = 1

\* ------------------------------------------------------------------------
\* C6
\* ------------------------------------------------------------------------

ParsableBodies == {JsonTextA, JsonTextB}

\* C6: an invocation whose request timed out, could not connect, or was
\* answered 200 with a body that is not JSON, ended with a raised exception
\* and not with an envelope.
C6_TransportFaultsPropagate ==
  \A i \in Invocations :
    ( /\ pc[i] = "done"
      /\ \/ TransportFault(i)
         \/ /\ answer[i].kind = "response"
            /\ answer[i].status = 200
            /\ answer[i].body \notin ParsableBodies ) =>
      result[i].out = "raised"

\* ------------------------------------------------------------------------
\* C7
\* ------------------------------------------------------------------------

\* C7: whatever the verb, an invocation answered 204 returned {success: true},
\* and one answered with another 2xx status and a JSON body returned the
\* parsed body.
C7_NoContentIsSuccess ==
  \A i \in Invocations :
    (pc[i] = "done" /\ Is2xx(i)) =>
      /\ answer[i].status = 204 =>
           (result[i].out = "envelope" /\ result[i].kind = "data"
            /\ result[i].data = "object(success=true)")
      /\ (answer[i].status # 204 /\ answer[i].body \in ParsableBodies) =>
           (result[i].out = "envelope" /\ result[i].kind = "data"
            /\ result[i].data = "object(id=d1)")

\* ------------------------------------------------------------------------
\* C8
\* ------------------------------------------------------------------------

\* activation i has handed its request to the HTTP client
HasRequest(i) == pc[i] \in {"awaiting", "done"} /\ sent[i] = 1

\* a value that is neither null nor empty, zero or false
NonEmpty(v) == v \notin {Null, Str(""), PyFalse, PyInt(0), EmptyList}

MutationTools ==
  {"update_account", "update_device", "update_group", "update_user",
   "update_session", "update_meeting", "create_group", "create_user",
   "create_session", "create_meeting"}

\* the path-identifier argument of a mutation tool, if it has one
PathIdOf(name) ==
  CASE name = "update_device" -> {"device_id"}
    [] name = "update_group" -> {"group_id"}
    [] name = "update_user" -> {"user_id"}
    [] name = "update_session" -> {"session_code"}
    [] name = "update_meeting" -> {"meeting_id"}
    [] OTHER -> {}

\* the path of a mutation tool up to its identifier
PathPrefixOf(name) ==
  CASE name = "update_account" -> "/account"
    [] name = "update_device" -> "/devices/"
    [] name = "update_group" -> "/groups/"
    [] name = "update_user" -> "/users/"
    [] name = "update_session" -> "/sessions/"
    [] name = "update_meeting" -> "/meetings/"
    [] name = "create_group" -> "/groups"
    [] name = "create_user" -> "/users"
    [] name = "create_session" -> "/sessions"
    [] name = "create_meeting" -> "/meetings"

\* the supplied arguments other than ids whose value is not null
SuppliedExcept(args, ids) ==
  [k \in {x \in (DOMAIN args) \ ids : args[x] # Null} |-> args[k]]

\* C8 as stated, on the calls that supply only declared arguments and no
\* null required argument: the body of the request of every mutation tool is
\* exactly the supplied non-null arguments other than the path identifier.
C8_BodyIsSuppliedArguments ==
  \A i \in Invocations :
    ( /\ HasRequest(i)
      /\ call[i].name \in MutationTools
      /\ DOMAIN call[i].args \subseteq Descriptor(call[i].name).properties
      /\ \A k \in Descriptor(call[i].name).required \cap DOMAIN call[i].args :
           call[i].args[k] # Null ) =>
      /\ ~req[i].body.none
      /\ req[i].body.map = SuppliedExcept(call[i].args, PathIdOf(call[i].name))

\* C8 amended: for the mutation tools other than create_group the body is
\* exactly the supplied non-null arguments other than the path identifier,
\* each copied verbatim, and the path identifier appears only in the path;
\* for create_group the body is the name as supplied, plus policy_id when it
\* was supplied with a non-empty value, and nothing else.
C8_MutationBody ==
  \A i \in Invocations :
    (HasRequest(i) /\ call[i].name \in MutationTools) =>
      LET name == call[i].name
          args == call[i].args
          ids == PathIdOf(name)
          body == req[i].body
      IN  /\ ~body.none
          /\ req[i].params.none
          /\ req[i].verb = IF name \in {"create_group", "create_user",
                                        "create_session", "create_meeting"}
                           THEN "POST" ELSE "PUT"
          /\ \A k \in ids :
               /\ k \notin DOMAIN body.map
               /\ req[i].url = BASE_URL \o PathPrefixOf(name) \o args[k].s
          /\ ids = {} => req[i].url = BASE_URL \o PathPrefixOf(name)
          /\ name # "create_group" => body.map = SuppliedExcept(args, ids)
          /\ name = "create_group" =>
               /\ DOMAIN body.map =
                    {"name"} \cup
                    {k \in {"policy_id"} \cap DOMAIN args : NonEmpty(args[k])}
               /\ \A k \in DOMAIN body.map : body.map[k] = args[k]

C8_Witness ==
  /\ HasRequest(1)
  /\ call[1].name = "update_device"
  /\ call[1].args = [device_id |-> Str("v1"), alias |-> Str("")]
  /\ req[1].url = BASE_URL \o "/devices/v1"
  /\ req[1].body.map = [alias |-> Str("")]

\* ------------------------------------------------------------------------
\* C9
\* ------------------------------------------------------------------------

ListTools == {"list_devices", "list_groups", "list_users", "list_sessions"}

\* C9: the query of a list tool has a declared filter key exactly when the
\* argument was supplied with a non-empty, non-false value; full_list is sent
\* as the string "true", every other filter as supplied; no key has a null or
\* empty value, and no other key is sent.
C9_ListFilters ==
  \A i \in Invocations :
    (HasRequest(i) /\ call[i].name \in ListTools) =>
      LET args == call[i].args
          declared == Descriptor(call[i].name).properties
          query == req[i].params
      IN  /\ req[i].verb = "GET"
          /\ req[i].body.none
          /\ DOMAIN query.map =
               {k \in declared \cap DOMAIN args : NonEmpty(args[k])}
          /\ query.none <=> DOMAIN query.map = {}
          /\ \A k \in DOMAIN query.map :
               /\ query.map[k] \notin {Null, Str("")}
               /\ IF k = "full_list"
                  THEN query.map[k] = Str("true")
                  ELSE query.map[k] = args[k]

C9_Witness ==
  /\ HasRequest(1)
  /\ call[1].name = "list_devices"
  /\ call[1].args = [full_list |-> PyTrue, groupid |-> Str("")]
  /\ req[1].params.map = [full_list |-> Str("true")]

\* ------------------------------------------------------------------------
\* C10
\* ------------------------------------------------------------------------

\* the renaming table of the claim
ReportParam ==
  [from_date |-> "from", to_date |-> "to", device_id |-> "deviceid",
   user_id |-> "userid", session_code |-> "sessioncode",
   limit |-> "limit", offset |-> "offset"]

\* C10: the query of get_connection_reports is exactly the supplied
\* (non-null) arguments of the table, renamed, with their values unchanged
\* (limit 0 and offset 0 included); nothing else is sent, no default is
\* injected.
C10_ReportQuery ==
  \A i \in Invocations :
    (HasRequest(i) /\ call[i].name = "get_connection_reports") =>
      LET args == call[i].args
          given == {k \in (DOMAIN ReportParam) \cap DOMAIN args : args[k] # Null}
          query == req[i].params
      IN  /\ req[i].verb = "GET"
          /\ req[i].url = BASE_URL \o "/reports/connections"
          /\ req[i].body.none
          /\ DOMAIN query.map = {ReportParam[k] : k \in given}
          /\ \A k \in given : query.map[ReportParam[k]] = args[k]
          /\ query.none <=> given = {}

C10_Witness ==
  /\ HasRequest(1)
  /\ call[1].name = "get_connection_reports"
  /\ call[1].args = [from_date |-> Str("v1"), limit |-> PyInt(50)]
  /\ req[1].params.map = [from |-> Str("v1"), limit |-> PyInt(50)]

\* ------------------------------------------------------------------------
\* C11
\* ------------------------------------------------------------------------

\* C11: the request of a close_session call with session code c, whatever
\* else the call carries, is a PUT to /sessions/<c> with no query parameters
\* and the body {"state": "closed"} and nothing else.
C11_CloseSession ==
  \A i \in Invocations :
    (HasRequest(i) /\ call[i].name = "close_session") =>
      /\ req[i].verb = "PUT"
      /\ req[i].url = BASE_URL \o "/sessions/" \o call[i].args["session_code"].s
      /\ req[i].params = NoneOpt
      /\ req[i].body = Some([state |-> Str("closed")])

C11_Witness ==
  /\ HasRequest(1)
  /\ call[1].name = "close_session"
  /\ call[1].args = [session_code |-> Str("v1"), state |-> Str("v1")]
  /\ req[1].url = "https://webapi.teamviewer.com/api/v1/sessions/v1"
  /\ req[1].body = Some([state |-> Str("closed")])

\* ------------------------------------------------------------------------
\* C12
\* ------------------------------------------------------------------------

\* C12: no step (a listing, the start, the completion or the return of an
\* invocation, successful or failing, a change of the token) adds, removes,
\* reorders or alters an entry of the catalog, and once the catalog has been
\* listed every later listing returns the same descriptors in the same
\* order as the first.
C12_CatalogStable ==
  [][/\ catalog' = catalog
     /\ listed # << >> => listed' = listed]_vars

\* the catalog has been listed, one invocation has returned an envelope for
\* a 2xx answer and another has raised
C12_Witness ==
  /\ listed = TOOLS
  /\ Len(listed) = 29
  /\ listed[1].name = "get_account"
  /\ listed[29].name = "ping"
  /\ pc[1] = "done" /\ Is2xx(1) /\ result[1].out = "envelope"
  /\ pc[2] = "done" /\ result[2].out = "raised"

\* ------------------------------------------------------------------------
\* C13
\* ------------------------------------------------------------------------

\* C13: an invocation of a catalog tool (with the arguments its branch
\* reads) uses the token the environment holds when the invocation starts,
\* whatever the token was at earlier invocations and however they ended: if
\* the token is empty the invocation ends with the configuration envelope
\* and sends nothing, otherwise it sends its request with the Authorization
\* header "Bearer <that token>".
C13_TokenReadAtEachCall ==
  [][\A i \in Invocations :
       (pc[i] = "idle" /\ pc'[i] # "idle" /\ Shapeable(i)') =>
         IF env_token = ""
         THEN /\ pc'[i] = "done"
              /\ result'[i] = ConfigurationEnvelope
              /\ sent'[i] = 0
         ELSE /\ pc'[i] = "awaiting"
              /\ sent'[i] = 1
              /\ req'[i].auth = "Bearer " \o env_token]_vars

\* an invocation started without a token has ended with the configuration
\* envelope, the token is now tok-B, and an invocation started with tok-B
\* has sent it and succeeded
C13_Witness ==
  /\ pc[1] = "done" /\ call[1].token = "" /\ result[1] = ConfigurationEnvelope
  /\ env_token = "tok-B"
  /\ pc[2] = "done" /\ call[2].token = "tok-B"
  /\ req[2].auth = "Bearer tok-B"
  /\ result[2] = ok(JsonValueD1)

\* ------------------------------------------------------------------------
\* C14
\* ------------------------------------------------------------------------

\* everything activation i holds
Local(i) == <<pc[i], call[i], req[i], sent[i], client[i], answer[i], result[i]>>

\* two activations at the same point with the same tool name, arguments,
\* credential and answer have the same request and the same outcome
Determined ==
  \A i, j \in Invocations :
    (pc[i] = pc[j] /\ call[i] = call[j] /\ answer[i] = answer[j]) =>
      (req[i] = req[j] /\ sent[i] = sent[j] /\ result[i] = result[j])

\* C14: with invocations in flight together and interleaved at the network
\* call, a step of one invocation (its start, the answer, timeout or failure
\* of its request, its return) changes nothing another invocation holds,
\* and the request and outcome of an invocation are a function of its own
\* tool name, arguments, credential and answer.
C14_Independent ==
  [][/\ \A i, j \in Invocations :
          (i # j /\ Local(i)' # Local(i)) => Local(j)' = Local(j)
     /\ Determined']_vars

\* two invocations of the same call were in flight together with the same
\* request; the first timed out and raised, the second was answered and
\* returned the data
C14_Witness ==
  /\ call[1].name = "get_device" /\ call[2] = call[1]
  /\ HasRequest(1) /\ req[2] = req[1]
  /\ pc[1] = "done" /\ answer[1].kind = "timeout" /\ result[1].out = "raised"
  /\ pc[2] = "done" /\ Is2xx(2) /\ result[2] = ok(JsonValueD1)

\* ------------------------------------------------------------------------
\* C15
\* ------------------------------------------------------------------------

\* C15: the HTTP client of an invocation is open only while the invocation
\* is suspended at its network call; when the invocation has ended, by a
\* result, an upstream error, a timeout, a connection failure, an
\* unparsable body or a missing credential, the client it opened is closed,
\* and an invocation that entered no transport helper opened none.
C15_ClientsReleased ==
  \A i \in Invocations :
    /\ client[i] = "open" <=> pc[i] = "awaiting"
    /\ pc[i] = "idle" => client[i] = "none"
    /\ pc[i] = "done" => client[i] = IF Shapeable(i) THEN "closed" ELSE "none"

\* one invocation ended by a timeout and one by the missing credential, and
\* both have closed their client
C15_Witness ==
  /\ pc[1] = "done" /\ answer[1].kind = "timeout" /\ result[1].out = "raised"
  /\ client[1] = "closed"
  /\ pc[2] = "done" /\ call[2].token = "" /\ result[2] = ConfigurationEnvelope
  /\ client[2] = "closed"

====
